---- MODULE Spec2Model ----
(***************************************************************************)
(* A model of qgrad/qutip.py: the Displacer class (lines 221-245) and the  *)
(* ladder-operator functions destroy, create and squeeze (lines 129-180,   *)
(* 247-262).                                                               *)
(*                                                                         *)
(* Numbers.  A complex scalar is a record [re, im, nan] over the Gaussian  *)
(* integers; nan marks the IEEE not-a-number that numpy's 0/0 produces.    *)
(* The real number sqrt(k) is the record [rad |-> k].  The output of the   *)
(* LAPACK eigensolver and of exp() on it is kept as an expression over its *)
(* inputs.  Arrays are functions on 0..len-1, as Python indexes them.      *)
(*                                                                         *)
(* Names.  Lines 232-245 use the names np and scipy; the model reads them  *)
(* as numpy and scipy (the import block, lines 4-8, binds neither).        *)
(***************************************************************************)
EXTENDS Integers, Sequences, FiniteSets, TLC

VARIABLES gen, ctor, pc, frame, call

vars == <<gen, ctor, pc, frame, call>>

\* ------------------------------------------------------------------ bounds
\* Largest dimension passed to a constructor or a ladder function.
MaxN == 4
\* Dimensions range down to -NegN.
NegN == 2
\* Largest |alpha| passed to Displacer.__call__.
MaxAbs == 1
\* Squeezing parameters z = re + im*j with |re|, |im| <= MaxZ.
MaxZ == 1

\* The callers that evaluate one generator concurrently.
Threads == {"t1", "t2"}

\* ------------------------------------------------------------------ values
None == [none |-> TRUE]

\* A Python number passed as a dimension: an int, or a float whose value is
\* twice/2 (2.0 is [ty |-> "float", twice |-> 4], 2.5 is twice |-> 5).
IntDim(k) == [ty |-> "int", twice |-> 2 * k]
FloatDim(h) == [ty |-> "float", twice |-> h]
Dims == {IntDim(k) : k \in (0 - NegN)..MaxN} \cup {FloatDim(h) : h \in 1..5}
IsInt(N) == N.ty = "int"
Val(N) == N.twice \div 2

\* A raised exception.
Raise(exc, msg) == [kind |-> "raise", exc |-> exc, msg |-> msg]
Raised(r) == r.kind = "raise"

\* arange(lo, hi): lo, lo+1, ..., hi-1; empty when hi <= lo.
Arange(lo, hi) == [i \in 0..(hi - lo - 1) |-> lo + i]
ALen(a) == Cardinality(DOMAIN a)
Zeros(n) == [i \in 0..(n - 1) |-> 0]
Sqrt(k) == [rad |-> k]

\* Complex scalars.
C(a, b) == [re |-> a, im |-> b, nan |-> FALSE]
NaN == [re |-> 0, im |-> 0, nan |-> TRUE]
One == C(1, 0)
J == C(0, 1)
CMul(x, y) ==
  IF x.nan \/ y.nan THEN NaN
  ELSE C(x.re * y.re - x.im * y.im, x.re * y.im + x.im * y.re)
CConj(x) == IF x.nan THEN NaN ELSE C(x.re, 0 - x.im)
\* x**k for an integer k >= 0; pow(x, 0) is 1 for every x, nan included.
RECURSIVE CPow(_, _)
CPow(x, k) == IF k = 0 THEN One ELSE CMul(x, CPow(x, k - 1))
\* x**(-k) for x of modulus 1 (or nan): 1/x is conj(x).
CInvPow(x, k) == CPow(CConj(x), k)
\* np.abs on the axis: every alpha of the model is m, m*j, -m or -m*j.
IntAbs(a) == IF a < 0 THEN 0 - a ELSE a
CAbs(x) == IntAbs(x.re) + IntAbs(x.im)

\* ------------------------------------------------- Displacer.__init__
\* line 232: the off-diagonal (2*(k%2) - 1) * sqrt(k), k = 1..n-1.
Sym(n) == [i \in 0..(n - 2) |-> [sign |-> 2 * ((i + 1) % 2) - 1, rad |-> i + 1]]

\* line 234: scipy.linalg.eigh_tridiagonal(d, e), kept as an expression.
EighVals(d, e) == [w |-> "eigh_tridiagonal", d |-> d, e |-> e]
EighVecs(d, e) == [v |-> "eigh_tridiagonal", d |-> d, e |-> e]

\* line 236 with the exponent taken modulo 4 instead of 2.
TScaleMod4(range) == [k \in DOMAIN range |-> CPow(J, range[k] % 4)]
\* line 236: 1j**(self.range % 2).
TScale(range) == [k \in DOMAIN range |-> CPow(J, range[k] % 2)]

\* What stops the constructor, if anything.  __init__ tests nothing itself:
\* np.zeros(n) refuses a float and a negative int, eigh_tridiagonal refuses
\* d of size 0 beside e of size 0.
InitError(n) ==
  IF ~IsInt(n) THEN Raise("TypeError", "'float' object cannot be interpreted as an integer")
  ELSE IF Val(n) < 0 THEN Raise("ValueError", "negative dimensions are not allowed")
  ELSE IF Val(n) = 0 THEN Raise("ValueError", "d (0) must have one more element than e (0)")
  ELSE None

\* The object __init__ leaves behind for an int n >= 1.
NewDisplacer(n) ==
  [evals |-> EighVals(Zeros(n), Sym(n)),
   evecs |-> EighVecs(Zeros(n), Sym(n)),
   range |-> Arange(0, n),
   t_scale |-> TScale(Arange(0, n))]

NoFrame == [alpha |-> None, builtin |-> FALSE, transform |-> None,
            evecs |-> None, diag |-> None, ret |-> None]

Idle == \A t \in Threads : pc[t] = "idle"

\* g = Displacer(n).  A raise leaves the caller without a new object.  Every
\* caller's self is the object g, so g is rebound only between calls.
Construct(n) ==
  /\ Idle
  /\ ctor' = [n |-> n, error |-> InitError(n)]
  /\ gen' = IF InitError(n) = None THEN NewDisplacer(Val(n)) ELSE gen
  /\ UNCHANGED <<pc, frame, call>>

\* ------------------------------------------------- Displacer.__call__
\* alpha: a point m*u on an axis, u in {1, j, -1, -j}; builtin says whether it
\* is a Python complex (True) or a float / numpy scalar (False).
Units == {C(1, 0), C(0, 1), C(-1, 0), C(0, -1)}
Scale(m, u) == C(m * u.re, m * u.im)
Alphas == {[val |-> Scale(m, u), builtin |-> b] :
             m \in 0..MaxAbs, u \in Units, b \in BOOLEAN}

\* alpha / np.abs(alpha).  With np.abs(alpha) = 0: a Python complex divides
\* itself and raises; a float or numpy scalar is divided by numpy, which
\* warns and yields nan.
Phase(a) ==
  LET r == CAbs(a.val) IN
  IF r = 0 THEN (IF a.builtin THEN Raise("ZeroDivisionError", "complex division by zero")
                 ELSE [kind |-> "value", u |-> NaN])
  ELSE [kind |-> "value", u |-> C(a.val.re \div r, a.val.im \div r)]

\* line 241: self.t_scale * (alpha / np.abs(alpha))**-self.range.
Transform(self, a) ==
  IF Raised(Phase(a)) THEN Phase(a)
  ELSE [kind |-> "value",
        v |-> [k \in DOMAIN self.range |->
                 CMul(self.t_scale[k], CInvPow(Phase(a).u, self.range[k]))]]

\* line 242: transform[:, None] * self.evecs, a new array: row k of the
\* eigenvector matrix times transform[k].
RowScaled(transform, evecs) == [rowscale |-> transform, mat |-> evecs]

\* line 244: np.exp(1j * np.abs(alpha) * self.evals).
ExpDiag(a, evals) == [exp1j |-> CAbs(a.val), w |-> evals]

\* line 245: np.conj(evecs) @ (diag[:, None] * evecs.T), a new n x n array.
\* Entry (p, q) is conj(rowscale[p]) * rowscale[q] * (V diag V^T)[p, q].
\* shares: the attributes of self whose buffer the array shares.
Product(ev, diag) ==
  [kind |-> "ndarray",
   shape |-> <<ALen(ev.rowscale), ALen(ev.rowscale)>>,
   lscale |-> [k \in DOMAIN ev.rowscale |-> CConj(ev.rowscale[k])],
   diag |-> diag,
   mat |-> ev.mat,
   rscale |-> ev.rowscale,
   shares |-> {}]

\* line 242 written as an in-place update of the attribute.
AfterLine242InPlace(self, transform) ==
  [self EXCEPT !.evecs = RowScaled(transform, self.evecs)]
\* The object after line 242: the product is bound to a local name.
AfterLine242(self, transform) == self

\* g(alpha) is entered by thread t.
Call(t, a) ==
  /\ pc[t] = "idle"
  /\ gen # None
  /\ pc' = [pc EXCEPT ![t] = "l241"]
  /\ frame' = [frame EXCEPT ![t] = [NoFrame EXCEPT !.alpha = a.val, !.builtin = a.builtin]]
  /\ UNCHANGED <<gen, ctor, call>>

Arg(t) == [val |-> frame[t].alpha, builtin |-> frame[t].builtin]

Line241(t) ==
  /\ pc[t] = "l241"
  /\ IF Raised(Transform(gen, Arg(t)))
       THEN /\ pc' = [pc EXCEPT ![t] = "raised"]
            /\ frame' = [frame EXCEPT ![t].ret = Transform(gen, Arg(t))]
       ELSE /\ pc' = [pc EXCEPT ![t] = "l242"]
            /\ frame' = [frame EXCEPT ![t].transform = Transform(gen, Arg(t)).v]
  /\ UNCHANGED <<gen, ctor, call>>

Line242(t) ==
  /\ pc[t] = "l242"
  /\ pc' = [pc EXCEPT ![t] = "l244"]
  /\ frame' = [frame EXCEPT ![t].evecs = RowScaled(frame[t].transform, gen.evecs)]
  /\ gen' = AfterLine242(gen, frame[t].transform)
  /\ UNCHANGED <<ctor, call>>

Line244(t) ==
  /\ pc[t] = "l244"
  /\ pc' = [pc EXCEPT ![t] = "l245"]
  /\ frame' = [frame EXCEPT ![t].diag = ExpDiag(Arg(t), gen.evals)]
  /\ UNCHANGED <<gen, ctor, call>>

Line245(t) ==
  /\ pc[t] = "l245"
  /\ pc' = [pc EXCEPT ![t] = "returned"]
  /\ frame' = [frame EXCEPT ![t].ret = Product(frame[t].evecs, frame[t].diag)]
  /\ UNCHANGED <<gen, ctor, call>>

\* The caller takes the result (or the exception) and the frame is gone.
Finish(t) ==
  /\ pc[t] \in {"returned", "raised"}
  /\ pc' = [pc EXCEPT ![t] = "idle"]
  /\ frame' = [frame EXCEPT ![t] = NoFrame]
  /\ UNCHANGED <<gen, ctor, call>>


\* ------------------------------------------------------- destroy, create
\* lines 140-141, 168-169 with the isinstance test left out.
DimGuardMissing(N) == TRUE
\* lines 140-141, 168-169: isinstance(N, (int, jnp.integer)).
DimGuard(N) == IsInt(N)

\* lines 141, 169: the error of a dimension that is no integer.
InvalidDimension == Raise("ValueError", "Hilbert space dimension must be an integer value")

\* lines 142, 170: jnp.sqrt(jnp.arange(1, N)).
Data(N) == [i \in 0..(N - 2) |-> Sqrt(Arange(1, N)[i])]

\* jax.ops.index_update(x, index[i], v): a NEW array, x with entry i (counted
\* from the end when negative) set to v.  x itself is not written.
IndexUpdate(x, i, v) ==
  LET k == IF i < 0 THEN ALen(x) + i ELSE i
  IN  IF k \in DOMAIN x THEN [x EXCEPT ![k] = v] ELSE x

\* jax refuses to index an axis of size 0 in some releases and ignores the
\* out-of-range index in others.
IndexUpdateErrors(x) ==
  IF ALen(x) = 0
  THEN {None, Raise("IndexError", "index is out of bounds for axis 0 with size 0")}
  ELSE {None}

\* lines 149, 151, 177, 179: scipy's csr_matrix((data, ind, ptr), shape=(N, N))
\* with the consistency checks its constructor runs.
CsrMatrix(data, ind, ptr, N) ==
  IF N < 0 THEN Raise("ValueError", "'shape' elements cannot be negative")
  ELSE IF ALen(ptr) # N + 1 THEN Raise("ValueError", "index pointer size should be N+1")
  ELSE IF ptr[0] # 0 THEN Raise("ValueError", "index pointer should start with 0")
  ELSE IF ALen(ind) # ALen(data)
    THEN Raise("ValueError", "indices and data should have the same size")
  ELSE IF ptr[N] > ALen(ind)
    THEN Raise("ValueError", "Last value of index pointer should be less than the size of index and data arrays")
  ELSE [kind |-> "csr", shape |-> <<N, N>>, data |-> data, indices |-> ind, indptr |-> ptr]

\* lines 151, 179: .toarray(): row r holds data[j] at column indices[j] for
\* indptr[r] <= j < indptr[r+1], and zero elsewhere.
ToArray(m) ==
  LET N == m.shape[1]
      Hit(r, c) == {j \in m.indptr[r]..(m.indptr[r + 1] - 1) : m.indices[j] = c}
  IN  [kind |-> "ndarray", shape |-> m.shape,
       rows |-> [r \in 0..(N - 1) |-> [c \in 0..(N - 1) |->
                   IF Hit(r, c) = {} THEN Sqrt(0)
                   ELSE m.data[CHOOSE j \in Hit(r, c) : TRUE]]]]

\* lines 148-152, 176-180: csr_matrix(...) if full is True else
\* csr_matrix(...).toarray().
Branch(full) == IF full = TRUE THEN "csr_matrix" ELSE "toarray"
Select(full, m) ==
  IF Raised(m) THEN m
  ELSE IF Branch(full) = "csr_matrix" THEN m ELSE ToArray(m)

\* The frame of one call of destroy or create: the arguments, the three
\* arrays, the array index_update returned (which the code drops) and the
\* value returned or the exception raised.
LadderFrame(fn, N, full, data, ind, ptr, dropped, ret) ==
  [fn |-> fn, N |-> N, full |-> full, z |-> None, branch |-> Branch(full),
   data |-> data, ind |-> ind, ptr |-> ptr, dropped |-> dropped, ret |-> ret]

\* The frames destroy(N, full) can end in (lines 129-152).
DestroyFrames(N, full) ==
  IF ~DimGuard(N)
  THEN {LadderFrame("destroy", N, full, None, None, None, None, InvalidDimension)}
  ELSE LET n == Val(N)
           data == Data(n)
           ind == Arange(1, n)
           ptr == Arange(0, n + 1)
       IN  {LadderFrame("destroy", N, full, data, ind, ptr,
                        IF e = None THEN IndexUpdate(ptr, -1, n - 1) ELSE None,
                        IF e = None THEN Select(full, CsrMatrix(data, ind, ptr, n)) ELSE e)
              : e \in IndexUpdateErrors(ptr)}

\* The frames create(N, full) can end in (lines 156-180).
CreateFrames(N, full) ==
  IF ~DimGuard(N)
  THEN {LadderFrame("create", N, full, None, None, None, None, InvalidDimension)}
  ELSE LET n == Val(N)
           data == Data(n)
           ind == Arange(0, n - 1)
           ptr == Arange(0, n + 1)
       IN  {LadderFrame("create", N, full, data, ind, ptr,
                        IF e = None THEN IndexUpdate(ptr, 0, 0) ELSE None,
                        IF e = None THEN Select(full, CsrMatrix(data, ind, ptr, n)) ELSE e)
              : e \in IndexUpdateErrors(ptr)}

Destroy(N, full) ==
  /\ \E f \in DestroyFrames(N, full) : call' = f
  /\ UNCHANGED <<gen, ctor, pc, frame>>

Create(N, full) ==
  /\ \E f \in CreateFrames(N, full) : call' = f
  /\ UNCHANGED <<gen, ctor, pc, frame>>

\* ----------------------------------------------------------------- squeeze
Zs == {C(a, b) : a \in (0 - MaxZ)..MaxZ, b \in (0 - MaxZ)..MaxZ}

\* line 261: (1/2) * (conj(z) * matrix_power(destroy(N), 2)
\*                    - z * matrix_power(create(N), 2)), kept as an expression:
\* each term names its coefficient and the function whose result is squared.
Generator(z, a, c) ==
  [scale |-> "1/2",
   plus |-> [coef |-> CConj(z), of |-> "destroy", base |-> a, power |-> 2],
   minus |-> [coef |-> z, of |-> "create", base |-> c, power |-> 2]]

\* lines 261-262: destroy(N) is evaluated first, then create(N); an
\* exception of either leaves squeeze; otherwise expm(op) is returned.
SqueezeRet(z, a, c) ==
  IF Raised(a) THEN a
  ELSE IF Raised(c) THEN c
  ELSE [kind |-> "ndarray", shape |-> a.shape, expm |-> Generator(z, a, c)]

Squeeze(N, z) ==
  /\ \E fa \in DestroyFrames(N, FALSE), fc \in CreateFrames(N, FALSE) :
       call' = [fn |-> "squeeze", N |-> N, full |-> FALSE, z |-> z,
                branch |-> None, data |-> None, ind |-> None, ptr |-> None,
                dropped |-> None, ret |-> SqueezeRet(z, fa.ret, fc.ret)]
  /\ UNCHANGED <<gen, ctor, pc, frame>>

\* ------------------------------------------------------------ specification
Init ==
  /\ gen = None
  /\ ctor = None
  /\ pc = [t \in Threads |-> "idle"]
  /\ frame = [t \in Threads |-> NoFrame]
  /\ call = None

Next ==
  \/ \E n \in Dims : Construct(n)
  \/ \E t \in Threads, a \in Alphas : Call(t, a)
  \/ \E t \in Threads : Line241(t)
  \/ \E t \in Threads : Line242(t)
  \/ \E t \in Threads : Line244(t)
  \/ \E t \in Threads : Line245(t)
  \/ \E t \in Threads : Finish(t)

Spec == Init /\ [][Next]_vars

\* The auxiliary functions, each call a step.
LadderNext ==
  \/ \E N \in Dims, full \in BOOLEAN : Destroy(N, full)
  \/ \E N \in Dims, full \in BOOLEAN : Create(N, full)
  \/ \E N \in Dims, z \in Zs : Squeeze(N, z)

LadderSpec == Init /\ [][LadderNext]_vars

\* ================================================================== claims
\* The generator of the last successful construction is the current one.
Built == ctor # None /\ ctor.error = None

C2_AsClaimedInvalidDimension ==
  ctor # None =>
    IF IsInt(ctor.n) /\ Val(ctor.n) >= 1
    THEN ctor.error = None
    ELSE ctor.error # None /\ ctor.error.exc = "ValueError"

Entries(m) == IF m.kind = "csr" THEN ToArray(m).rows ELSE m.rows
SuperDiagonal(N) ==
  [r \in 0..(N - 1) |-> [c \in 0..(N - 1) |-> IF c = r + 1 THEN Sqrt(c) ELSE Sqrt(0)]]
SubDiagonal(N) ==
  [r \in 0..(N - 1) |-> [c \in 0..(N - 1) |-> IF r = c + 1 THEN Sqrt(r) ELSE Sqrt(0)]]
ValidDim(N) == IsInt(N) /\ Val(N) >= 1

\* C6 (as claimed): for every integer N >= 1, destroy(N) returns the N x N
\* matrix with sqrt(k) at (k-1, k) and zero elsewhere, and the row-pointer
\* array it builds ends in N-1, the number of stored values.
C6_AsClaimedDestroy ==
  (call # None /\ call.fn = "destroy" /\ ValidDim(call.N)) =>
    /\ call.ptr[Val(call.N)] = Val(call.N) - 1
    /\ ~Raised(call.ret)
    /\ Entries(call.ret) = SuperDiagonal(Val(call.N))

\* C7 (as claimed): for every integer N >= 1, create(N) returns the N x N
\* matrix with sqrt(k) at (k, k-1) and zero elsewhere, the transpose of
\* destroy(N).
C7_AsClaimedCreate ==
  (call # None /\ call.fn = "create" /\ ValidDim(call.N)) =>
    /\ ~Raised(call.ret)
    /\ Entries(call.ret) = SubDiagonal(Val(call.N))

\* C8 (as claimed): for an integer N >= 0, full = True selects the dense
\* array and full = False the compressed sparse row matrix, in the branch
\* taken and in whatever is returned.
C8_AsClaimedFullFlag ==
  (call # None /\ call.fn \in {"destroy", "create"} /\ IsInt(call.N) /\ Val(call.N) >= 0) =>
    /\ call.branch = IF call.full THEN "toarray" ELSE "csr_matrix"
    /\ ~Raised(call.ret) => (call.ret.kind = IF call.full THEN "ndarray" ELSE "csr")

\* C9 (as amended): destroy(N) and create(N) raise the dimension error
\* exactly when N is not an integer; an integer N, positive or not, is not
\* rejected by that check.
C9_DimensionErrorIffNotInteger ==
  (call # None /\ call.fn \in {"destroy", "create"}) =>
    (call.ret = InvalidDimension <=> ~IsInt(call.N))

\* C9 witness: destroy or create was called with a float and raised the
\* dimension error.
C9_Witness ==
  /\ call # None
  /\ call.fn \in {"destroy", "create"}
  /\ call.N = FloatDim(5)
  /\ call.ret = InvalidDimension

\* C9 (as claimed): destroy(N) and create(N) raise the dimension error
\* whenever N is not a positive integer, N = 0 and negative N included.
C9_AsClaimedRejectsNonPositive ==
  (call # None /\ call.fn \in {"destroy", "create"} /\ ~ValidDim(call.N)) =>
    call.ret = InvalidDimension

\* C10 (as claimed): for an integer N >= 1, squeeze(N, z) returns the
\* exponential of (1/2)(conj(z) a_dagger^2 - z a^2): conj(z) multiplies the
\* square of create(N) and z, subtracted, the square of destroy(N).
C10_AsClaimedSqueeze ==
  (call # None /\ call.fn = "squeeze" /\ ValidDim(call.N)) =>
    /\ ~Raised(call.ret)
    /\ call.ret.expm.plus.coef = CConj(call.z)
    /\ call.ret.expm.plus.of = "create"
    /\ call.ret.expm.minus.coef = call.z
    /\ call.ret.expm.minus.of = "destroy"

====
